---- MODULE Spec2Model ----
(***************************************************************************)
(* Attendance-file import pipeline of TimeTracker (src/file_operations.py) *)
(* over the storage declared in src/models.py.                            *)
(***************************************************************************)
EXTENDS Integers, Sequences, FiniteSets, TLC

\* ------------------------------------------------------------------ bounds
\* Most data rows (rows after the four leading rows) of one file.
MaxRows == 4
\* Most data rows of a file whose header row lacks a column.
MaxShortRows == 2
\* Calendar dates are 1..MaxDate.
MaxDate == 2
\* Most data rows over all the files placed in the raw folder.
MaxTotalRows == 4

\* Most characters of a label handed to extract_user_info on its own.
MaxLabelLen == 4

\* Most rows of a frame handed to load_data_to_db on its own, and most
\* records stored before that call.
MaxLoadRows == 3
MaxStored == 2
\* Most rows of the frame of each of two concurrent load_data_to_db calls.
MaxImportRows == 2

Dates == 1..MaxDate

\* ------------------------------------------------------------ cell values
\* A spreadsheet cell as pandas hands it over: missing (NaN), a
\* Timestamp/time value, or text (a sequence of characters).
NaN == [k |-> "nan", n |-> 0, s |-> <<>>]
Ts(n) == [k |-> "ts", n |-> n, s |-> <<>>]
Str(s) == [k |-> "str", n |-> 0, s |-> s]

\* Python None after coercion; stored times are None or a number.
None == 0

isna(v) == v.k = "nan"
notna(v) == ~isna(v)

\* pd.to_datetime on one value: Timestamps convert, the texts of the
\* modelled files (labels, junk) do not parse.  NaT is None.
to_datetime(v) == IF v.k = "ts" THEN v.n ELSE None

\* is_date(value)
is_date(v) ==
  IF isna(v) THEN FALSE
  ELSE IF v.k = "ts" THEN TRUE
  ELSE to_datetime(v) # None

\* ---------------------------------------------------------------- strings
Lower == [c \in {"A", "B", "C", "D"} |->
            CASE c = "A" -> "a" [] c = "B" -> "b" [] c = "C" -> "c" [] c = "D" -> "d"]
Upper == [c \in {"a", "b", "c", "d"} |->
            CASE c = "a" -> "A" [] c = "b" -> "B" [] c = "c" -> "C" [] c = "d" -> "D"]
IsCased(c) == c \in DOMAIN Lower \/ c \in DOMAIN Upper
ToUpper(c) == IF c \in DOMAIN Upper THEN Upper[c] ELSE c
ToLower(c) == IF c \in DOMAIN Lower THEN Lower[c] ELSE c

\* Mutant: the name is stored as the label gives it.
title_asis(s) == s

\* str.title(): a cased character is upper-cased after an uncased one (or at
\* the start) and lower-cased after a cased one.
RECURSIVE TitleFrom(_, _)
TitleFrom(s, prevCased) ==
  IF s = <<>> THEN <<>>
  ELSE <<IF prevCased THEN ToLower(Head(s)) ELSE ToUpper(Head(s))>>
         \o TitleFrom(Tail(s), IsCased(Head(s)))
title(s) == TitleFrom(s, FALSE)

\* str.strip(): leading and trailing blanks removed.
RECURSIVE LStrip(_)
LStrip(s) == IF s # <<>> /\ Head(s) = " " THEN LStrip(Tail(s)) ELSE s
RECURSIVE RStrip(_)
RStrip(s) ==
  IF s # <<>> /\ s[Len(s)] = " " THEN RStrip(SubSeq(s, 1, Len(s) - 1)) ELSE s
strip(s) == RStrip(LStrip(s))

\* str.split('-'): the pieces between the separators, all of them.
RECURSIVE SplitFrom(_, _)
SplitFrom(s, cur) ==
  IF s = <<>> THEN <<cur>>
  ELSE IF Head(s) = "-" THEN <<cur>> \o SplitFrom(Tail(s), <<>>)
  ELSE SplitFrom(Tail(s), Append(cur, Head(s)))
split(s) == SplitFrom(s, <<>>)

\* extract_user_info(full_name): (id, name), or (None, None) as ok = FALSE.
NoInfo == [ok |-> FALSE, id |-> <<>>, name |-> <<>>]
extract_user_info(full_name) ==
  LET parts == split(full_name) IN
  IF Len(parts) < 2 THEN NoInfo
  ELSE [ok |-> TRUE, id |-> strip(parts[1]), name |-> strip(parts[2])]

\* ------------------------------------------------------------------ files
\* Column names of the header row (row 2 of the sheet).
keep_cols == {"Date", "First IN", "Last OUT", "Gross Hours"}

\* Labels found in the Date column of the modelled files.
LabelA == <<"1", " ", "-", " ", "a", "b">>
LabelB == <<"1", " ", "-", " ", "C", "d">>
LabelC == <<"2", "-", "a", "b">>
LabelM == <<"a", "b">>
Labels == {LabelA, LabelB, LabelC, LabelM}

Junk == Str(<<"a">>)
TimeCells == {<<Ts(1), Ts(1), Ts(1)>>, <<Ts(1), Ts(2), Junk>>}

Row(d, t) == [Date |-> d, First_IN |-> t[1], Last_OUT |-> t[2], Gross_Hours |-> t[3]]
LabelRows == {Row(Str(l), <<NaN, NaN, NaN>>) : l \in Labels}
BlankRows == {Row(NaN, <<NaN, NaN, NaN>>)}
DataRows == {Row(Ts(d), t) : d \in Dates, t \in TimeCells}
Rows == LabelRows \cup BlankRows \cup DataRows

Headers == {keep_cols} \cup {keep_cols \ {c} : c \in keep_cols}

\* What read_xls_file finds: a sheet (header row and the rows after the four
\* leading rows), a sheet with no rows at all, or a file xlrd cannot read.
Table(cols, rows) == [kind |-> "table", columns |-> cols, rows |-> rows]
EmptyDf == [kind |-> "empty", columns |-> {}, rows |-> <<>>]
Corrupt == [kind |-> "corrupt", columns |-> {}, rows |-> <<>>]
NoFile == [kind |-> "nofile", columns |-> {}, rows |-> <<>>]

SeqsUpTo(S, n) == UNION {[1..m -> S] : m \in 0..n}
Min(a, b) == IF a < b THEN a ELSE b
FilesUpTo(n) ==
  {Table(keep_cols, r) : r \in SeqsUpTo(Rows, n)}
    \cup {Table(h, r) : h \in Headers \ {keep_cols}, r \in SeqsUpTo(Rows, Min(n, MaxShortRows))}
    \cup {EmptyDf, Corrupt}

\* ---------------------------------------------------------------- storage
\* EmployeeMaster rows (id is the primary key) and DailyAttendance rows (the
\* position in the sequence is the autoincrement id).
EmployeeMaster(id, name) == [id |-> id, name |-> name]
DailyAttendance(e, d, i, o, g) ==
  [emp_id |-> e, attendance_date |-> d, in_time |-> i, out_time |-> o, duration |-> g]
Ids(emps) == {u.id : u \in emps}

\* ------------------------------------------------- get_or_create_users_batch
NoMap == [l \in {} |-> <<>>]
UsersResult(map, emps) == [map |-> map, employees |-> emps]

\* Mutant: one label that does not parse makes the whole batch empty.
user_info_all_or_none(user_names) ==
  IF \A l \in user_names :
       LET i == extract_user_info(l) IN i.ok /\ i.id # <<>> /\ i.name # <<>>
  THEN user_names ELSE {}

\* user_info: the labels that parse to a non-empty id and name.
user_info(user_names) ==
  {l \in user_names :
     LET i == extract_user_info(l) IN i.ok /\ i.id # <<>> /\ i.name # <<>>}

\* Mutant: on a storage failure the map built so far is returned.
get_or_create_users_batch_keepmap(user_names, emps, dbfail) ==
  LET valid == user_info(user_names)
      id(l) == extract_user_info(l).id
      existing_ids == {id(l) : l \in valid} \cap Ids(emps)
      newLabels == {l \in valid : id(l) \notin existing_ids}
      new_users == {EmployeeMaster(id(l), title(extract_user_info(l).name)) : l \in newLabels}
      clash == \/ \E l1, l2 \in newLabels : l1 # l2 /\ id(l1) = id(l2)
               \/ \E l \in newLabels : id(l) \in Ids(emps)
  IN IF valid = {} THEN UsersResult(NoMap, emps)
     ELSE IF dbfail \/ clash THEN UsersResult([l \in valid |-> id(l)], emps)
     ELSE UsersResult([l \in valid |-> id(l)], emps \cup new_users)

\* Mutant: every parsed label is written, replacing a stored employee (merge).
get_or_create_users_batch_merge(user_names, emps, dbfail) ==
  LET valid == user_info(user_names)
      id(l) == extract_user_info(l).id
      new_users == {EmployeeMaster(id(l), title(extract_user_info(l).name)) : l \in valid}
      clash == \E l1, l2 \in valid : l1 # l2 /\ id(l1) = id(l2)
  IN IF valid = {} THEN UsersResult(NoMap, emps)
     ELSE IF dbfail \/ clash THEN UsersResult(NoMap, emps)
     ELSE UsersResult([l \in valid |-> id(l)],
                      {u \in emps : u.id \notin Ids(new_users)} \cup new_users)

get_or_create_users_batch(user_names, emps, dbfail) ==
  LET valid == user_info(user_names)
      id(l) == extract_user_info(l).id
      existing_ids == {id(l) : l \in valid} \cap Ids(emps)
      newLabels == {l \in valid : id(l) \notin existing_ids}
      new_users == {EmployeeMaster(id(l), title(extract_user_info(l).name)) : l \in newLabels}
      \* a primary key inserted twice, or one already stored: IntegrityError
      clash == \/ \E l1, l2 \in newLabels : l1 # l2 /\ id(l1) = id(l2)
               \/ \E l \in newLabels : id(l) \in Ids(emps)
  IN IF valid = {} THEN UsersResult(NoMap, emps)
     ELSE IF dbfail \/ clash THEN UsersResult(NoMap, emps)
     ELSE UsersResult([l \in valid |-> id(l)], emps \cup new_users)

\* -------------------------------------------------------------- clean_data
NoUser == <<>>
CleanRow(u, r) ==
  [user_id |-> u, Date |-> r.Date, First_IN |-> r.First_IN,
   Last_OUT |-> r.Last_OUT, Gross_Hours |-> r.Gross_Hours]
IsLabelRow(r) == notna(r.Date) /\ ~is_date(r.Date)

\* STEP 1: the distinct texts of the Date column that are not dates.
unique_user_names(rows) ==
  {rows[i].Date.s : i \in {j \in DOMAIN rows : IsLabelRow(rows[j])}}

\* user_id_map.get(label)
MapGet(map, l) == IF l \in DOMAIN map THEN map[l] ELSE NoUser

\* Mutant: a label that is not in the map leaves the current user as it is.
RECURSIVE AssignUsers_sticky(_, _, _)
AssignUsers_sticky(rows, map, current_user_id) ==
  IF rows = <<>> THEN <<>>
  ELSE LET r == Head(rows) IN
       IF IsLabelRow(r) THEN
         AssignUsers_sticky(Tail(rows), map,
                            IF r.Date.s \in DOMAIN map THEN map[r.Date.s] ELSE current_user_id)
       ELSE IF isna(r.Date) THEN AssignUsers_sticky(Tail(rows), map, current_user_id)
       ELSE <<CleanRow(current_user_id, r)>>
              \o AssignUsers_sticky(Tail(rows), map, current_user_id)

\* Mutant: a row with a NaN date ends the current user's block.
RECURSIVE AssignUsers_blank_resets(_, _, _)
AssignUsers_blank_resets(rows, map, current_user_id) ==
  IF rows = <<>> THEN <<>>
  ELSE LET r == Head(rows) IN
       IF IsLabelRow(r) THEN AssignUsers_blank_resets(Tail(rows), map, MapGet(map, r.Date.s))
       ELSE IF isna(r.Date) THEN AssignUsers_blank_resets(Tail(rows), map, NoUser)
       ELSE <<CleanRow(current_user_id, r)>>
              \o AssignUsers_blank_resets(Tail(rows), map, current_user_id)

\* STEP 3: label rows set the current user and are dropped, rows with a NaN
\* date are dropped, every other row gets the current user.
RECURSIVE AssignUsers(_, _, _)
AssignUsers(rows, map, current_user_id) ==
  IF rows = <<>> THEN <<>>
  ELSE LET r == Head(rows) IN
       IF IsLabelRow(r) THEN AssignUsers(Tail(rows), map, MapGet(map, r.Date.s))
       ELSE IF isna(r.Date) THEN AssignUsers(Tail(rows), map, current_user_id)
       ELSE <<CleanRow(current_user_id, r)>>
              \o AssignUsers(Tail(rows), map, current_user_id)

\* df_cleaned[df_cleaned['user_id'].notna()]
DropNoUser(rows) == SelectSeq(rows, LAMBDA r : r.user_id # NoUser)

CleanResult(ok, rows, emps) == [ok |-> ok, rows |-> rows, employees |-> emps]

clean_data(df, emps, dbfail) ==
  IF df.kind = "empty" THEN CleanResult(FALSE, <<>>, emps)
  ELSE IF df.rows # <<>> /\ "Date" \notin df.columns THEN CleanResult(FALSE, <<>>, emps)
  ELSE LET u == get_or_create_users_batch(unique_user_names(df.rows), emps, dbfail) IN
       IF DOMAIN u.map = {} THEN CleanResult(FALSE, <<>>, u.employees)
       ELSE IF ~(keep_cols \subseteq df.columns) THEN CleanResult(FALSE, <<>>, u.employees)
       ELSE CleanResult(TRUE, DropNoUser(AssignUsers(df.rows, u.map, NoUser)), u.employees)

\* --------------------------------------------------------- load_data_to_db
\* Mutant: a time that does not convert is stored as the first time of the day.
Convert_default(r) ==
  LET time(v) == IF to_datetime(v) = None THEN 1 ELSE to_datetime(v) IN
  [user_id |-> r.user_id, Date |-> to_datetime(r.Date), First_IN |-> time(r.First_IN),
   Last_OUT |-> time(r.Last_OUT), Gross_Hours |-> time(r.Gross_Hours)]

\* pd.to_datetime(..., errors='coerce') then NaT -> None, per column.
Convert(r) ==
  [user_id |-> r.user_id, Date |-> to_datetime(r.Date), First_IN |-> to_datetime(r.First_IN),
   Last_OUT |-> to_datetime(r.Last_OUT), Gross_Hours |-> to_datetime(r.Gross_Hours)]
ConvertAll(rows) == [i \in DOMAIN rows |-> Convert(rows[i])]
ValidDates(rows) == SelectSeq(rows, LAMBDA r : r.Date # None)

SetMin(S) == CHOOSE x \in S : \A y \in S : x <= y
SetMax(S) == CHOOSE x \in S : \A y \in S : y <= x
\* Mutant: the upper end of the range is the date of the first row.
df_max_date_first(rows) == rows[1].Date
df_min_date(rows) == SetMin({rows[i].Date : i \in DOMAIN rows})
df_max_date(rows) == SetMax({rows[i].Date : i \in DOMAIN rows})

\* Mutant: the range query leaves out its two end dates.
Existing_open(att, e, d, lo, hi) ==
  {i \in DOMAIN att : att[i].attendance_date > lo /\ att[i].attendance_date < hi
                      /\ att[i].emp_id = e /\ att[i].attendance_date = d}

\* Mutant: the dict is keyed by the date alone.
Existing_any_employee(att, e, d, lo, hi) ==
  {i \in DOMAIN att : att[i].attendance_date >= lo /\ att[i].attendance_date <= hi
                      /\ att[i].attendance_date = d}

\* Ids of the stored records with this key among those the range query returns.
Existing(att, e, d, lo, hi) ==
  {i \in DOMAIN att : att[i].attendance_date >= lo /\ att[i].attendance_date <= hi
                      /\ att[i].emp_id = e /\ att[i].attendance_date = d}
Nth(S, k) == CHOOSE i \in S : Cardinality({j \in S : j <= i}) = k
\* Mutant: the lookup key never equals a key of the dict.
existing_records_dict_miss(att, e, d, lo, hi, pick) == 0

\* existing_records_dict[key]: with several records under one key the dict keeps
\* the one the query lists last; the query has no ORDER BY, so `pick` chooses.
existing_records_dict(att, e, d, lo, hi, pick) ==
  LET S == Existing(att, e, d, lo, hi) IN
  IF S = {} THEN 0 ELSE Nth(S, ((pick - 1) % Cardinality(S)) + 1)

\* Mutant: the log line reports the two counts the wrong way round.
LoadResult_swapped(ok, att, ins, upd) ==
  [ok |-> ok, attendance |-> att, inserted_count |-> upd, updated_count |-> ins]

LoadResult(ok, att, ins, upd) ==
  [ok |-> ok, attendance |-> att, inserted_count |-> ins, updated_count |-> upd]

\* The loop over the rows: updates are applied to the session's objects (taken
\* from the dict built before the loop), inserts are queued.
RECURSIVE ProcessRows(_, _, _, _, _, _, _, _)
ProcessRows(rows, att0, att, records_to_insert, updated_count, lo, hi, pick) ==
  IF rows = <<>> THEN
    LoadResult(TRUE, att \o records_to_insert, Len(records_to_insert), updated_count)
  ELSE LET r == Head(rows)
           k == existing_records_dict(att0, r.user_id, r.Date, lo, hi, pick)
           rec == DailyAttendance(r.user_id, r.Date, r.First_IN, r.Last_OUT, r.Gross_Hours)
       IN IF k # 0
          THEN ProcessRows(Tail(rows), att0, [att EXCEPT ![k] = rec], records_to_insert,
                           updated_count + 1, lo, hi, pick)
          ELSE ProcessRows(Tail(rows), att0, att, Append(records_to_insert, rec),
                           updated_count, lo, hi, pick)

load_data_to_db(df, att, dbfail, pick) ==
  LET rows == ValidDates(ConvertAll(df)) IN
  IF df = <<>> \/ rows = <<>> THEN LoadResult(FALSE, att, 0, 0)
  ELSE IF dbfail THEN LoadResult(FALSE, att, 0, 0)
  ELSE ProcessRows(rows, att, att, <<>>, 0, df_min_date(rows), df_max_date(rows), pick)

\* ------------------------------------------------------------------- state
VARIABLES
  employees,       \* table employee_master
  attendance,      \* table daily_attendance, in id order
  raw,             \* the .xls file in RAW_FOLDER, or NoFile
  rows_left,       \* data rows the environment may still supply
  pc,              \* position of process_file: "idle", "cleaned", "loaded", "done"
  df_cleaned,      \* clean_data's result, handed to load_data_to_db
  ret,             \* what the last process_file run returned: "none", "True", "False"
  failed,          \* the stage that made the last run fail, or "none"
  fault,           \* the storage failure the last step met: "none", "users", "load"
  committed,       \* load_data_to_db has committed this raw file before
  rerun,           \* the current run reads a file that was committed before
  emp0, att0,      \* the tables as they were when the current run started
  inserted_count, updated_count,  \* the counts the last load logged
  load_ret,        \* what load_data_to_db handed back to process_file
  imports,         \* the load_data_to_db calls of concurrent requests
  full_name, parsed,  \* a label and what extract_user_info made of it
  leaves,          \* table employee_leave, in id order
  records,         \* the leave records fetch_leave_records returned
  leave_ret,       \* what the last store_leave_records call returned
  base_accepts,    \* the mapped classes' constructor takes keywords that are no columns
  stores,          \* store_leave_records calls that have returned
  timelogs,        \* table zoho_timelog_entry, in id order
  response_data,   \* what fetch_zoho_timelogs returned
  timelog_ret,     \* what the last process_and_save_timelogs call returned
  total_inserted, total_updated, total_skipped,  \* the counters of that call
  saves,           \* process_and_save_timelogs calls that have returned
  request,         \* the request /process-attendance is handling
  response,        \* its answer: the HTTP status and the exception line 199 caught
  environ,         \* os.environ: ZOHO_ACCESS_TOKEN and ZOHO_TOKEN_EXPIRY of the process
  env_file,        \* the same two keys in the file .env
  now,             \* the clock
  requests_made,   \* POSTs to TOKEN_URL so far
  token_ret,       \* what the last get_valid_access_token call returned
  folder,          \* RAW_FOLDER when it holds several files, in os.listdir order
  file_path,       \* the name of the file the current run read, <<>> for none
  prev             \* the file the run before read and what that run returned

vars == <<employees, attendance, raw, rows_left, pc, df_cleaned, ret, failed, fault,
          committed, rerun, emp0, att0, inserted_count, updated_count, load_ret,
          imports, full_name, parsed, leaves, records, leave_ret, base_accepts, stores,
          timelogs, response_data, timelog_ret, total_inserted, total_updated,
          total_skipped, saves, request, response, environ, env_file, now,
          requests_made, token_ret, folder, file_path, prev>>

\* The variables of the attendance import.
program == <<employees, attendance, raw, rows_left, pc, df_cleaned, ret, failed, fault,
             committed, rerun, emp0, att0, inserted_count, updated_count, load_ret>>

\* The variables of the synchronisation with the HR service.
leave_vars == <<leaves, records, leave_ret, base_accepts, stores>>
timelog_vars == <<timelogs, response_data, timelog_ret, total_inserted, total_updated,
                  total_skipped, saves>>
endpoint_vars == <<request, response>>
token_vars == <<environ, env_file, now, requests_made, token_ret>>
folder_vars == <<folder, file_path, prev>>
services == <<leave_vars, timelog_vars, endpoint_vars, token_vars, folder_vars>>

\* The variables that only the specifications of single functions use.
others == <<imports, full_name, parsed, services>>

\* load_data_to_db returns a bare boolean; NoReturn before it has returned.
NoReturn == [value |-> "none"]
LoadReturn(ok) == [value |-> IF ok THEN "True" ELSE "False"]

\* The program before any run: empty tables, empty raw folder.
IdleProgram ==
  /\ employees = {}
  /\ attendance = <<>>
  /\ raw = NoFile
  /\ rows_left = MaxTotalRows
  /\ pc = "idle"
  /\ df_cleaned = <<>>
  /\ ret = "none"
  /\ failed = "none"
  /\ fault = "none"
  /\ committed = FALSE
  /\ rerun = FALSE
  /\ emp0 = {}
  /\ att0 = <<>>
  /\ inserted_count = 0
  /\ updated_count = 0
  /\ load_ret = NoReturn

\* Nothing fetched from the HR service, nothing stored from it.
IdleLeave ==
  /\ leaves = <<>>
  /\ records = <<>>
  /\ leave_ret = "none"
  /\ base_accepts = FALSE
  /\ stores = 0

Response(logs) == [time_logs |-> logs]

IdleTimelog ==
  /\ timelogs = <<>>
  /\ response_data = Response(<<>>)
  /\ timelog_ret = "none"
  /\ total_inserted = 0
  /\ total_updated = 0
  /\ total_skipped = 0
  /\ saves = 0

\* A request: whether its session has a user, and the uploaded file's name.
UploadRequest(user, filename) == [user |-> user, filename |-> filename]

HttpResponse(status, caught) == [status |-> status, caught |-> caught]
NoResponse == HttpResponse(0, "none")

IdleEndpoint ==
  /\ request = UploadRequest(FALSE, <<>>)
  /\ response = NoResponse

\* The two keys; token 0 and expiry 0 stand for a key that is not set.
TokenEnv(token, expiry) == [ZOHO_ACCESS_TOKEN |-> token, ZOHO_TOKEN_EXPIRY |-> expiry]
NoToken == TokenEnv(0, 0)

IdleToken ==
  /\ environ = NoToken
  /\ env_file = NoToken
  /\ now = 0
  /\ requests_made = 0
  /\ token_ret = 0

\* What a finished run leaves for the next one to compare with.
PrevRun(path, r) == [file_path |-> path, ret |-> r]

IdleFolder ==
  /\ folder = <<>>
  /\ file_path = <<>>
  /\ prev = PrevRun(<<>>, "none")

IdleServices == IdleLeave /\ IdleTimelog /\ IdleEndpoint /\ IdleToken /\ IdleFolder

Init ==
  /\ IdleProgram
  /\ imports = <<>>
  /\ full_name = <<>>
  /\ parsed = <<>>
  /\ IdleServices

\* The values that describe one run only, as they are between runs.
ResetRun ==
  /\ ret' = "none"
  /\ failed' = "none"
  /\ fault' = "none"
  /\ emp0' = employees
  /\ att0' = attendance
  /\ inserted_count' = 0
  /\ updated_count' = 0
  /\ df_cleaned' = <<>>
  /\ rerun' = FALSE
  /\ load_ret' = NoReturn

\* The environment puts a file into the empty raw folder.
PlaceFile ==
  /\ pc = "idle"
  /\ raw = NoFile
  /\ \E f \in FilesUpTo(Min(MaxRows, rows_left)) :
       /\ raw' = f
       /\ rows_left' = rows_left - Len(f.rows)
  /\ committed' = FALSE
  /\ UNCHANGED <<employees, attendance, pc, df_cleaned, ret, failed, fault, rerun, emp0,
                 att0, inserted_count, updated_count, load_ret, others>>

\* The environment takes the file out of the raw folder again.
RemoveFile ==
  /\ pc = "idle"
  /\ raw # NoFile
  /\ raw' = NoFile
  /\ committed' = FALSE
  /\ UNCHANGED <<employees, attendance, rows_left, pc, df_cleaned, ret, failed, fault,
                 rerun, emp0, att0, inserted_count, updated_count, load_ret, others>>

\* clean_data gets as far as the storage calls of get_or_create_users_batch.
UsersQueried(df) ==
  /\ df.kind = "table"
  /\ df.rows = <<>> \/ "Date" \in df.columns
  /\ user_info(unique_user_names(df.rows)) # {}

\* process_file, first part: read_xls_file and clean_data.
ReadAndClean ==
  /\ pc = "idle"
  /\ rerun' = committed
  /\ UNCHANGED <<attendance, raw, rows_left, committed, emp0, att0, inserted_count,
                 updated_count, load_ret, others>>
  /\ IF raw.kind \in {"nofile", "corrupt"}
     THEN /\ pc' = "done"
          /\ ret' = "False"
          /\ failed' = "read"
          /\ UNCHANGED <<employees, df_cleaned, fault>>
     ELSE \E dbfail \in BOOLEAN :
          LET c == clean_data(raw, employees, dbfail) IN
          /\ employees' = c.employees
          /\ fault' = IF dbfail /\ UsersQueried(raw) THEN "users" ELSE "none"
          /\ IF c.ok /\ c.rows # <<>>
             THEN /\ pc' = "cleaned"
                  /\ df_cleaned' = c.rows
                  /\ UNCHANGED <<ret, failed>>
             ELSE /\ pc' = "done"
                  /\ ret' = "False"
                  /\ failed' = "clean"
                  /\ UNCHANGED df_cleaned

\* Most records stored under one (emp_id, attendance_date) key.
MaxMult(att) ==
  SetMax({1} \cup {Cardinality({j \in DOMAIN att :
                      att[j].emp_id = att[i].emp_id
                      /\ att[j].attendance_date = att[i].attendance_date})
                   : i \in DOMAIN att})

\* Mutant: process_file goes on to move_file although the load failed.
LoadData_goes_on ==
  /\ pc = "cleaned"
  /\ \E dbfail \in BOOLEAN, pick \in 1..MaxMult(attendance) :
     LET r == load_data_to_db(df_cleaned, attendance, dbfail, pick) IN
     /\ attendance' = r.attendance
     /\ inserted_count' = r.inserted_count
     /\ updated_count' = r.updated_count
     /\ load_ret' = LoadReturn(r.ok)
     /\ fault' = IF dbfail THEN "load" ELSE "none"
     /\ pc' = "loaded"
     /\ committed' = (committed \/ r.ok)
     /\ failed' = IF r.ok THEN failed ELSE "load"
     /\ UNCHANGED ret
  /\ UNCHANGED <<employees, raw, rows_left, df_cleaned, rerun, emp0, att0, others>>

\* process_file, second part: load_data_to_db.
LoadData ==
  /\ pc = "cleaned"
  /\ \E dbfail \in BOOLEAN, pick \in 1..MaxMult(attendance) :
     LET r == load_data_to_db(df_cleaned, attendance, dbfail, pick) IN
     /\ attendance' = r.attendance
     /\ inserted_count' = r.inserted_count
     /\ updated_count' = r.updated_count
     /\ load_ret' = LoadReturn(r.ok)
     /\ fault' = IF dbfail THEN "load" ELSE "none"
     /\ IF r.ok
        THEN /\ pc' = "loaded"
             /\ committed' = TRUE
             /\ UNCHANGED <<ret, failed>>
        ELSE /\ pc' = "done"
             /\ ret' = "False"
             /\ failed' = "load"
             /\ UNCHANGED committed
  /\ UNCHANGED <<employees, raw, rows_left, df_cleaned, rerun, emp0, att0, others>>

\* Mutant: a failed move makes process_file return False.
MoveFile_strict ==
  /\ pc = "loaded"
  /\ \E mvfail \in BOOLEAN :
       /\ raw' = IF mvfail THEN raw ELSE NoFile
       /\ ret' = IF mvfail THEN "False" ELSE "True"
  /\ pc' = "done"
  /\ UNCHANGED <<employees, attendance, rows_left, df_cleaned, failed, fault, committed,
                 rerun, emp0, att0, inserted_count, updated_count, load_ret, others>>

\* process_file, last part: move_file; its failure is only logged.
MoveFile ==
  /\ pc = "loaded"
  /\ \E mvfail \in BOOLEAN : raw' = IF mvfail THEN raw ELSE NoFile
  /\ pc' = "done"
  /\ ret' = "True"
  /\ UNCHANGED <<employees, attendance, rows_left, df_cleaned, failed, fault, committed,
                 rerun, emp0, att0, inserted_count, updated_count, load_ret, others>>

\* process_file has returned; the next run starts from the tables as they are.
Return ==
  /\ pc = "done"
  /\ pc' = "idle"
  /\ ResetRun
  /\ UNCHANGED <<employees, attendance, raw, rows_left, committed, others>>

Next ==
  \/ PlaceFile
  \/ RemoveFile
  \/ ReadAndClean
  \/ LoadData
  \/ MoveFile
  \/ Return

Spec == Init /\ [][Next]_vars

\* --------------------------------------------- load_data_to_db on its own
\* load_data_to_db called with any frame of the cleaned columns, also one with
\* a Date that does not convert, on a table that holds records of two
\* employees.
LoadUsers == {<<"1">>, <<"2">>}
StoredRecords ==
  {DailyAttendance(<<"1">>, d, 1, 1, 1) : d \in Dates} \cup {DailyAttendance(<<"2">>, 1, 1, 1, 1)}
LoadRows ==
  {CleanRow(<<"1">>, Row(Ts(n), t)) : n \in Dates, t \in TimeCells}
    \cup {CleanRow(<<"1">>, Row(Junk, <<Ts(1), Ts(1), Ts(1)>>))}
\* The tables of at most n stored records, listed by key (which id a record
\* has plays no part in load_data_to_db); a key may be stored twice.
KeyRank(r) == r.attendance_date + (IF r.emp_id = <<"1">> THEN 0 ELSE MaxDate)
StoredUpTo(n) ==
  {t \in SeqsUpTo(StoredRecords, n) :
     \A i, j \in DOMAIN t : i < j => KeyRank(t[i]) <= KeyRank(t[j])}

InitLoad ==
  /\ employees = {EmployeeMaster(u, <<"A">>) : u \in LoadUsers}
  /\ attendance \in StoredUpTo(MaxStored)
  /\ df_cleaned \in SeqsUpTo(LoadRows, MaxLoadRows)
  /\ att0 = attendance
  /\ emp0 = employees
  /\ pc = "cleaned"
  /\ raw = Table(keep_cols, <<>>)
  /\ rows_left = 0
  /\ ret = "none"
  /\ failed = "none"
  /\ fault = "none"
  /\ committed = FALSE
  /\ rerun = FALSE
  /\ inserted_count = 0
  /\ updated_count = 0
  /\ load_ret = NoReturn
  /\ imports = <<>>
  /\ full_name = <<>>
  /\ parsed = <<>>
  /\ IdleServices

SpecLoad == InitLoad /\ [][LoadData]_vars

\* ------------------------------------- two load_data_to_db calls at once
\* Each call has its own session: it queries the stored records of its date
\* range, works through its rows against what it read, and commits later; the
\* other call may query or commit in between.  Nothing in load_data_to_db or in
\* the tables makes one call wait for the other.
Procs == {1, 2}
Import(pcp, df, snap) == [pc |-> pcp, df |-> df, snap |-> snap]

InitConcurrent ==
  /\ employees = {EmployeeMaster(u, <<"A">>) : u \in LoadUsers}
  /\ attendance \in SeqsUpTo({r \in StoredRecords : r.emp_id = <<"1">>}, 1)
  /\ imports \in [Procs -> {Import("start", d, <<>>) : d \in SeqsUpTo(LoadRows, MaxImportRows)}]
  /\ att0 = attendance
  /\ emp0 = employees
  /\ pc = "idle"
  /\ raw = NoFile
  /\ rows_left = 0
  /\ df_cleaned = <<>>
  /\ ret = "none"
  /\ failed = "none"
  /\ fault = "none"
  /\ committed = FALSE
  /\ rerun = FALSE
  /\ inserted_count = 0
  /\ updated_count = 0
  /\ load_ret = NoReturn
  /\ full_name = <<>>
  /\ parsed = <<>>
  /\ IdleServices

\* Lines 272-311 of one call: convert, drop the rows without a date, query the
\* range.
QueryExisting(p) ==
  /\ imports[p].pc = "start"
  /\ imports' = [imports EXCEPT ![p] =
       IF ValidDates(ConvertAll(imports[p].df)) = <<>>
       THEN Import("failed", imports[p].df, <<>>)
       ELSE Import("queried", imports[p].df, attendance)]
  /\ UNCHANGED <<employees, attendance, raw, rows_left, pc, df_cleaned, ret, failed, fault,
                 committed, rerun, emp0, att0, inserted_count, updated_count, load_ret,
                 full_name, parsed, services>>

\* Lines 313-344 of one call: the loop over the rows against the records it
\* read, the bulk insert and the commit (or the rollback when storage fails).
CommitImport(p) ==
  /\ imports[p].pc = "queried"
  /\ \E dbfail \in BOOLEAN, pick \in 1..MaxMult(imports[p].snap) :
       LET rows == ValidDates(ConvertAll(imports[p].df))
           r == ProcessRows(rows, imports[p].snap, attendance, <<>>, 0,
                            df_min_date(rows), df_max_date(rows), pick)
       IN /\ attendance' = IF dbfail THEN attendance ELSE r.attendance
          /\ imports' = [imports EXCEPT ![p].pc = IF dbfail THEN "failed" ELSE "committed"]
  /\ UNCHANGED <<employees, raw, rows_left, pc, df_cleaned, ret, failed, fault,
                 committed, rerun, emp0, att0, inserted_count, updated_count, load_ret,
                 full_name, parsed, services>>

NextConcurrent == \E p \in Procs : QueryExisting(p) \/ CommitImport(p)

SpecConcurrent == InitConcurrent /\ [][NextConcurrent]_vars

\* ------------------------------------------- extract_user_info on its own
\* The label is any text over LabelChars of at most MaxLabelLen characters;
\* parsed is <<>> until the call has returned and <<result>> afterwards.
LabelChars == {"1", "-", " ", "a"}

InitExtract ==
  /\ IdleProgram
  /\ imports = <<>>
  /\ full_name \in SeqsUpTo(LabelChars, MaxLabelLen)
  /\ parsed = <<>>
  /\ IdleServices

Extract ==
  /\ parsed = <<>>
  /\ parsed' = <<extract_user_info(full_name)>>
  /\ UNCHANGED <<employees, attendance, raw, rows_left, pc, df_cleaned, ret, failed, fault,
                 committed, rerun, emp0, att0, inserted_count, updated_count, load_ret,
                 imports, full_name, services>>

SpecExtract == InitExtract /\ [][Extract]_vars

\* ----------------------------------------------------- store_leave_records
MaxRecords == 2
MaxLeaveDays == 2
MaxStores == 2

\* str.lower() of a whole text.
lower(s) == [i \in DOMAIN s |-> ToLower(s[i])]

\* The members of LeaveTypeEnum by name, each with its value.
LeaveTypeEnum ==
  [full_day |-> "Full Day", first_half |-> "First Half", second_half |-> "Second Half"]

\* A row of employee_leave; leave_type is the member's name, which is what the
\* Enum column keeps and hands back as the member.
EmployeeLeave(e, d, t) == [emp_id |-> e, leave_date |-> d, leave_type |-> t]

\* One entry of a record's "Days" and one fetched record.
Day(d, c, s) == [date |-> d, LeaveCount |-> c, Session |-> s]
Record(st, emp, days) == [ApprovalStatus |-> st, Employee |-> emp, Days |-> days]

\* float() of the LeaveCount texts, in tenths of a day.
float(c) == CASE c = "0.5" -> 5 [] c = "1" -> 10

\* Lines 106-112.
leave_type(day) ==
  IF float(day.LeaveCount) = 5
  THEN (IF day.Session = 1 THEN "first_half" ELSE "second_half")
  ELSE "full_day"

\* Line 79: one id per lower-cased name; which one when two employees share
\* it is up to the order the query hands them back.
emp_caches(emps) ==
  LET names == {lower(e.name) : e \in emps}
  IN {f \in [names -> Ids(emps)] :
        \A n \in names : \E e \in emps : e.id = f[n] /\ lower(e.name) = n}

\* Line 82: the stored leaves as (emp_id, leave_date, leave_type.value).
existing_leaves(lv) ==
  {<<lv[i].emp_id, lv[i].leave_date, LeaveTypeEnum[lv[i].leave_type]>> : i \in DOMAIN lv}

\* Lines 102-125: the days of one record.
RECURSIVE DayEntries(_, _, _, _)
DayEntries(days, emp_id, existing, acc) ==
  IF days = <<>> THEN acc
  ELSE LET single_day == Head(days)
           lt == leave_type(single_day)
       IN DayEntries(Tail(days), emp_id, existing,
            IF <<emp_id, single_day.date, lt>> \in existing THEN acc
            ELSE Append(acc, EmployeeLeave(emp_id, single_day.date, lt)))

\* Lines 85-125: the loop over the records.
RECURSIVE new_entries(_, _, _, _)
new_entries(recs, cache, existing, acc) ==
  IF recs = <<>> THEN acc
  ELSE LET rec == Head(recs)
           emp_name == lower(strip(rec.Employee))
       IN new_entries(Tail(recs), cache, existing,
            IF rec.ApprovalStatus # "Approved" \/ emp_name \notin DOMAIN cache THEN acc
            ELSE DayEntries(rec.Days, cache[emp_name], existing, acc))

StoreResult(ok, lv) == [ok |-> ok, leaves |-> lv]

\* store_leave_records: False for nothing to store; False with a rollback when
\* storage fails or when building an entry raises; otherwise the new entries
\* are saved in one go and the result is True.  Building an entry hands the
\* constructor zoho_leave_type and reason, which are no columns of
\* EmployeeLeave: accepts says whether the declarative base takes them.
store_leave_records(recs, cache, lv, accepts, dbfail) ==
  IF recs = <<>> THEN StoreResult(FALSE, lv)
  ELSE IF dbfail THEN StoreResult(FALSE, lv)
  ELSE LET new == new_entries(recs, cache, existing_leaves(lv), <<>>)
       IN IF new = <<>> THEN StoreResult(TRUE, lv)
          ELSE IF ~accepts THEN StoreResult(FALSE, lv)
          ELSE StoreResult(TRUE, lv \o new)

\* The fetched records: approved leaves of employee A of up to MaxLeaveDays
\* days on distinct dates, one leave that is not approved, one of employee B
\* and one of somebody who is no employee.
LeaveDays ==
  {Day(d, "0.5", s) : d \in Dates, s \in {1, 2}} \cup {Day(d, "1", 1) : d \in Dates}
DaysUpTo(n) ==
  {q \in SeqsUpTo(LeaveDays, n) : \A i, j \in DOMAIN q : i # j => q[i].date # q[j].date}
LeaveRecords ==
  {Record("Approved", <<" ", "A">>, q) : q \in DaysUpTo(MaxLeaveDays)}
    \cup {Record("Pending", <<"a">>, <<Day(1, "1", 1)>>),
          Record("Approved", <<"b">>, <<Day(1, "1", 1)>>),
          Record("Approved", <<"c">>, <<Day(1, "1", 1)>>)}

InitLeave ==
  /\ employees = {EmployeeMaster(<<"1">>, <<"A">>), EmployeeMaster(<<"2">>, <<"B">>)}
  /\ emp0 = employees
  /\ attendance = <<>>
  /\ att0 = <<>>
  /\ raw = NoFile
  /\ rows_left = 0
  /\ pc = "idle"
  /\ df_cleaned = <<>>
  /\ ret = "none"
  /\ failed = "none"
  /\ fault = "none"
  /\ committed = FALSE
  /\ rerun = FALSE
  /\ inserted_count = 0
  /\ updated_count = 0
  /\ load_ret = NoReturn
  /\ imports = <<>>
  /\ full_name = <<>>
  /\ parsed = <<>>
  /\ leaves = <<>>
  /\ records \in SeqsUpTo(LeaveRecords, MaxRecords)
  /\ leave_ret = "none"
  /\ base_accepts \in BOOLEAN
  /\ stores = 0
  /\ IdleTimelog
  /\ IdleEndpoint
  /\ IdleToken
  /\ IdleFolder

\* One call store_leave_records(records).
StoreLeaveRecords ==
  /\ stores < MaxStores
  /\ \E cache \in emp_caches(employees), dbfail \in BOOLEAN :
       LET r == store_leave_records(records, cache, leaves, base_accepts, dbfail)
       IN /\ leaves' = r.leaves
          /\ leave_ret' = IF r.ok THEN "True" ELSE "False"
  /\ stores' = stores + 1
  /\ UNCHANGED <<program, imports, full_name, parsed, records, base_accepts, timelog_vars,
                 endpoint_vars, token_vars, folder_vars>>

SpecLeave == InitLeave /\ [][StoreLeaveRecords]_vars

\* ----------------------------------------------- process_and_save_timelogs
MaxLogs == 2
MaxLogDays == 1
MaxSaves == 2

\* The columns of ZohoTimelogEntry as src/models.py declares them.
ZohoTimelogEntryColumns ==
  {"id", "emp_id", "timelog_date", "project", "task", "start_time", "end_time",
   "logged_hours", "created", "modified"}

\* A row of zoho_timelog_entry, the fields the function writes.
ZohoTimelogEntry(e, d, p, id, h) ==
  [emp_id |-> e, timelog_date |-> d, project |-> p, task_log_id |-> id, logged_hours |-> h]

\* An employee with the email column filled.
EmployeeWithEmail(id, name, email) == [id |-> id, name |-> name, email |-> email]

\* One entry of log_details ("" and 0 stand for a missing field) and one
\* entry of time_logs.
Log(email, p, id, h) == [email |-> email, project |-> p, id |-> id, log_hour |-> h]
SingleLog(d, logs) == [date |-> d, log_details |-> logs]

\* get_user_id_by_email: the ids of the employees with that email, none or one.
get_user_id_by_email(emps, email) == {e.id : e \in {x \in emps : x.email = email}}

SaveState(tl, ins, upd, skp) ==
  [timelogs |-> tl, total_inserted |-> ins, total_updated |-> upd, total_skipped |-> skp]
Skipped(st) ==
  SaveState(st.timelogs, st.total_inserted, st.total_updated, st.total_skipped + 1)

\* Lines 190-247 for one log.  The query of lines 217-220 names
\* ZohoTimelogEntry.task_log_id: on a class without that column it raises,
\* and line 245 counts the log as skipped.
ProcessLog(log, single_log_date, emps, st) ==
  LET ids == get_user_id_by_email(emps, log.email)
      found == {i \in DOMAIN st.timelogs :
                  /\ st.timelogs[i].task_log_id = log.id
                  /\ st.timelogs[i].timelog_date = single_log_date}
  IN IF log.email = "" THEN Skipped(st)
     ELSE IF ids = {} THEN Skipped(st)
     ELSE IF log.project = "" \/ log.log_hour = 0 \/ log.id = 0 THEN Skipped(st)
     ELSE IF "task_log_id" \notin ZohoTimelogEntryColumns THEN Skipped(st)
     ELSE IF found # {}
     THEN LET i == CHOOSE k \in found : \A m \in found : k <= m
          IN SaveState([st.timelogs EXCEPT ![i].project = log.project,
                                           ![i].logged_hours = log.log_hour],
                       st.total_inserted, st.total_updated + 1, st.total_skipped)
     ELSE SaveState(Append(st.timelogs,
                           ZohoTimelogEntry(CHOOSE e \in ids : TRUE, single_log_date,
                                            log.project, log.id, log.log_hour)),
                    st.total_inserted + 1, st.total_updated, st.total_skipped)

RECURSIVE ProcessLogs(_, _, _, _)
ProcessLogs(logs, single_log_date, emps, st) ==
  IF logs = <<>> THEN st
  ELSE ProcessLogs(Tail(logs), single_log_date, emps,
                   ProcessLog(Head(logs), single_log_date, emps, st))

\* Lines 182-247: the loop over time_logs.
RECURSIVE ProcessDays(_, _, _)
ProcessDays(all_timelogs, emps, st) ==
  IF all_timelogs = <<>> THEN st
  ELSE ProcessDays(Tail(all_timelogs), emps,
                   ProcessLogs(Head(all_timelogs).log_details, Head(all_timelogs).date,
                               emps, st))

SaveResult(ok, st) == [ok |-> ok, st |-> st]

\* process_and_save_timelogs: False for an empty response; otherwise the loop,
\* one commit for all of it, and True; False with nothing stored when the
\* commit raises.
process_and_save_timelogs(data, emps, tl, dbfail) ==
  IF data.time_logs = <<>> THEN SaveResult(FALSE, SaveState(tl, 0, 0, 0))
  ELSE LET st == ProcessDays(data.time_logs, emps, SaveState(tl, 0, 0, 0))
       IN IF dbfail
          THEN SaveResult(FALSE, SaveState(tl, st.total_inserted, st.total_updated,
                                           st.total_skipped))
          ELSE SaveResult(TRUE, st)

\* The responses: up to MaxLogDays days of up to MaxLogs logs each, by an
\* employee, by a stranger or by nobody, complete or without a project.
Logs ==
  {Log(m, p, id, 1) : m \in {"", "a@", "z@"}, p \in {"", "p", "q"}, id \in {1, 2}}
SingleLogs == {SingleLog(d, l) : d \in Dates, l \in SeqsUpTo(Logs, MaxLogs)}

InitTimelog ==
  /\ employees = {EmployeeWithEmail(<<"1">>, <<"A">>, "a@")}
  /\ emp0 = employees
  /\ attendance = <<>>
  /\ att0 = <<>>
  /\ raw = NoFile
  /\ rows_left = 0
  /\ pc = "idle"
  /\ df_cleaned = <<>>
  /\ ret = "none"
  /\ failed = "none"
  /\ fault = "none"
  /\ committed = FALSE
  /\ rerun = FALSE
  /\ inserted_count = 0
  /\ updated_count = 0
  /\ load_ret = NoReturn
  /\ imports = <<>>
  /\ full_name = <<>>
  /\ parsed = <<>>
  /\ IdleLeave
  /\ timelogs = <<>>
  /\ response_data \in {Response(l) : l \in SeqsUpTo(SingleLogs, MaxLogDays)}
  /\ timelog_ret = "none"
  /\ total_inserted = 0
  /\ total_updated = 0
  /\ total_skipped = 0
  /\ saves = 0
  /\ IdleEndpoint
  /\ IdleToken
  /\ IdleFolder

\* One call process_and_save_timelogs(response_data).
ProcessAndSaveTimelogs ==
  /\ saves < MaxSaves
  /\ \E dbfail \in BOOLEAN :
       LET r == process_and_save_timelogs(response_data, employees, timelogs, dbfail)
       IN /\ timelogs' = r.st.timelogs
          /\ total_inserted' = r.st.total_inserted
          /\ total_updated' = r.st.total_updated
          /\ total_skipped' = r.st.total_skipped
          /\ timelog_ret' = IF r.ok THEN "True" ELSE "False"
  /\ saves' = saves + 1
  /\ UNCHANGED <<program, imports, full_name, parsed, leave_vars, response_data,
                 endpoint_vars, token_vars, folder_vars>>

SpecTimelog == InitTimelog /\ [][ProcessAndSaveTimelogs]_vars

\* ------------------------------------------------- POST /process-attendance
MaxNameLen == 5

\* str.endswith.
endswith(s, suffix) ==
  /\ Len(s) >= Len(suffix)
  /\ SubSeq(s, Len(s) - Len(suffix) + 1, Len(s)) = suffix

\* The number of parameters process_file declares, and the number of
\* arguments the endpoint calls it with.
process_file_params == 0
process_file_args == 2

Answer(status, caught, r) == [response |-> HttpResponse(status, caught), ret |-> r]

\* process_attendance_file: 401 without a session user, 400 for a name that
\* does not end in .xls; then, inside the try, the upload is read and
\* process_file is called.  A call with the wrong number of arguments raises
\* TypeError before process_file runs.  Whatever is raised inside the try,
\* the HTTPException of line 198 included, is caught at line 199 and answered
\* with 500.  success is what process_file returns when it does run.
process_attendance_file(req, read_fails, success, r) ==
  IF ~req.user THEN Answer(401, "none", r)
  ELSE IF ~endswith(req.filename, <<".", "x", "l", "s">>) THEN Answer(400, "none", r)
  ELSE IF read_fails THEN Answer(500, "read", r)
  ELSE IF process_file_args # process_file_params THEN Answer(500, "TypeError", r)
  ELSE IF success THEN Answer(200, "none", "True")
  ELSE Answer(500, "HTTPException", "False")

NameChars == {"a", ".", "x", "l", "s"}

InitEndpoint ==
  /\ IdleProgram
  /\ imports = <<>>
  /\ full_name = <<>>
  /\ parsed = <<>>
  /\ IdleLeave
  /\ IdleTimelog
  /\ request \in {UploadRequest(u, f) : u \in BOOLEAN, f \in SeqsUpTo(NameChars, MaxNameLen)}
  /\ response = NoResponse
  /\ IdleToken
  /\ IdleFolder

\* The endpoint answers the request.
ProcessAttendanceFile ==
  /\ response = NoResponse
  /\ \E read_fails \in BOOLEAN, success \in BOOLEAN :
       LET a == process_attendance_file(request, read_fails, success, ret)
       IN /\ response' = a.response
          /\ ret' = a.ret
  /\ UNCHANGED <<employees, attendance, raw, rows_left, pc, df_cleaned, failed, fault,
                 committed, rerun, emp0, att0, inserted_count, updated_count, load_ret,
                 imports, full_name, parsed, leave_vars, timelog_vars, request,
                 token_vars, folder_vars>>

SpecEndpoint == InitEndpoint /\ [][ProcessAttendanceFile]_vars

\* -------------------------------------------------- get_valid_access_token
MaxTime == 3
MaxExpiresIn == 2
MaxRequests == 3

\* A return value that is no token: nothing returned yet, or the call raised.
Raised == -1

TokenResult(t, file, posts) == [ret |-> t, env_file |-> file, requests_made |-> posts]

\* get_and_store_access_token: one POST to TOKEN_URL.  A 200 answer with a
\* token and a lifetime is written to the file .env with set_key, which
\* rewrites the file and leaves os.environ as it is; anything else raises.
get_and_store_access_token(file, posts, t, status, access_token, expires_in) ==
  IF status = 200 /\ access_token # 0 /\ expires_in # 0
  THEN TokenResult(access_token, TokenEnv(access_token, t + expires_in), posts + 1)
  ELSE TokenResult(Raised, file, posts + 1)

\* get_valid_access_token: the token of os.environ while the clock is before
\* its expiry, otherwise a refresh.
get_valid_access_token(env, file, posts, t, status, access_token, expires_in) ==
  IF env.ZOHO_ACCESS_TOKEN # 0 /\ env.ZOHO_TOKEN_EXPIRY # 0 /\ t < env.ZOHO_TOKEN_EXPIRY
  THEN TokenResult(env.ZOHO_ACCESS_TOKEN, file, posts)
  ELSE get_and_store_access_token(file, posts, t, status, access_token, expires_in)

\* The process starts with what load_dotenv read from .env: no token, or
\* token 1 with some expiry.
InitToken ==
  /\ IdleProgram
  /\ imports = <<>>
  /\ full_name = <<>>
  /\ parsed = <<>>
  /\ IdleLeave
  /\ IdleTimelog
  /\ IdleEndpoint
  /\ env_file \in {NoToken} \cup {TokenEnv(1, e) : e \in 1..MaxTime}
  /\ environ = env_file
  /\ now = 0
  /\ requests_made = 0
  /\ token_ret = 0
  /\ IdleFolder

\* One call of get_valid_access_token; the token endpoint answers with a new
\* token (numbered after the POST that fetched it) or with an error.
GetValidAccessToken ==
  /\ requests_made < MaxRequests
  /\ \E status \in {200, 500}, expires_in \in 0..MaxExpiresIn :
       LET r == get_valid_access_token(environ, env_file, requests_made, now, status,
                                       requests_made + 2, expires_in)
       IN /\ token_ret' = r.ret
          /\ env_file' = r.env_file
          /\ requests_made' = r.requests_made
  /\ UNCHANGED <<program, imports, full_name, parsed, leave_vars, timelog_vars,
                 endpoint_vars, environ, now, folder_vars>>

\* Time passes.
Tick ==
  /\ now < MaxTime
  /\ now' = now + 1
  /\ UNCHANGED <<program, imports, full_name, parsed, leave_vars, timelog_vars,
                 endpoint_vars, environ, env_file, requests_made, token_ret, folder_vars>>

NextToken == GetValidAccessToken \/ Tick

SpecToken == InitToken /\ [][NextToken]_vars

\* ------------------------------------- process_file on a folder of files
MaxFiles == 3

\* An entry of RAW_FOLDER: its name and what reading it gives.
Entry(name, file) == [name |-> name, file |-> file]

\* Mutant: the last .xls file listed is the one read.
xls_files_reversed(dir) ==
  LET idx == {i \in DOMAIN dir : endswith(dir[i].name, <<".", "x", "l", "s">>)}
      Rank(i) == Cardinality({j \in idx : j >= i})
  IN [k \in 1..Cardinality(idx) |-> dir[CHOOSE i \in idx : Rank(i) = k]]

\* Line 27: the entries whose name ends in .xls, in the order listed.
xls_files(dir) ==
  LET idx == {i \in DOMAIN dir : endswith(dir[i].name, <<".", "x", "l", "s">>)}
      Rank(i) == Cardinality({j \in idx : j <= i})
  IN [k \in 1..Cardinality(idx) |-> dir[CHOOSE i \in idx : Rank(i) = k]]

\* os.rename of move_file: the entry of that name is gone from the folder.
Renamed(dir, path) ==
  LET idx == {i \in DOMAIN dir : dir[i].name # path}
      Rank(i) == Cardinality({j \in idx : j <= i})
  IN [k \in 1..Cardinality(idx) |-> dir[CHOOSE i \in idx : Rank(i) = k]]

\* The names and the files of the modelled folders: a file that imports, a
\* second one, one without an employee label, and one xlrd cannot read.
FolderNames ==
  {<<"a", ".", "x", "l", "s">>, <<"l", ".", "x", "l", "s">>, <<"a", ".", "x", "l">>}
FolderFiles ==
  {Table(keep_cols, <<Row(Str(LabelA), <<NaN, NaN, NaN>>),
                      Row(Ts(1), <<Ts(1), Ts(1), Ts(1)>>)>>),
   Table(keep_cols, <<Row(Str(LabelC), <<NaN, NaN, NaN>>),
                      Row(Ts(2), <<Ts(1), Ts(2), Junk>>)>>),
   Table(keep_cols, <<Row(Ts(1), <<Ts(1), Ts(1), Ts(1)>>)>>),
   Corrupt}
Folders ==
  {d \in SeqsUpTo({Entry(n, f) : n \in FolderNames, f \in FolderFiles}, MaxFiles) :
     \A i, j \in DOMAIN d : i # j => d[i].name # d[j].name}

InitFolder ==
  /\ IdleProgram
  /\ imports = <<>>
  /\ full_name = <<>>
  /\ parsed = <<>>
  /\ IdleLeave
  /\ IdleTimelog
  /\ IdleEndpoint
  /\ IdleToken
  /\ folder \in Folders
  /\ file_path = <<>>
  /\ prev = PrevRun(<<>>, "none")

\* process_file, first part: read_xls_file lists the folder, reads the first
\* .xls file of the listing, and clean_data cleans it.
FolderRead ==
  /\ pc = "idle"
  /\ rerun' = committed
  /\ LET found == xls_files(folder)
         f == IF found = <<>> THEN NoFile ELSE found[1].file
     IN /\ file_path' = IF found = <<>> THEN <<>> ELSE found[1].name
        /\ raw' = f
        /\ IF f.kind \in {"nofile", "corrupt"}
           THEN /\ pc' = "done"
                /\ ret' = "False"
                /\ failed' = "read"
                /\ UNCHANGED <<employees, df_cleaned, fault>>
           ELSE \E dbfail \in BOOLEAN :
                LET c == clean_data(f, employees, dbfail) IN
                /\ employees' = c.employees
                /\ fault' = IF dbfail /\ UsersQueried(f) THEN "users" ELSE "none"
                /\ IF c.ok /\ c.rows # <<>>
                   THEN /\ pc' = "cleaned"
                        /\ df_cleaned' = c.rows
                        /\ UNCHANGED <<ret, failed>>
                   ELSE /\ pc' = "done"
                        /\ ret' = "False"
                        /\ failed' = "clean"
                        /\ UNCHANGED df_cleaned
  /\ UNCHANGED <<attendance, rows_left, committed, emp0, att0, inserted_count,
                 updated_count, load_ret, imports, full_name, parsed, leave_vars,
                 timelog_vars, endpoint_vars, token_vars, folder, prev>>

\* process_file, last part: move_file renames the file that was read out of
\* the folder; its failure is only logged.
FolderMove ==
  /\ pc = "loaded"
  /\ \E mvfail \in BOOLEAN :
       /\ folder' = IF mvfail THEN folder ELSE Renamed(folder, file_path)
       /\ committed' = (committed /\ mvfail)
  /\ pc' = "done"
  /\ ret' = "True"
  /\ UNCHANGED <<employees, attendance, raw, rows_left, df_cleaned, failed, fault, rerun,
                 emp0, att0, inserted_count, updated_count, load_ret, imports, full_name,
                 parsed, leave_vars, timelog_vars, endpoint_vars, token_vars, file_path,
                 prev>>

\* process_file has returned.
FolderReturn ==
  /\ pc = "done"
  /\ pc' = "idle"
  /\ ResetRun
  /\ prev' = PrevRun(file_path, ret)
  /\ file_path' = <<>>
  /\ UNCHANGED <<employees, attendance, raw, rows_left, committed, imports, full_name,
                 parsed, leave_vars, timelog_vars, endpoint_vars, token_vars, folder>>

\* Between two runs somebody takes a file out of the folder.
TakeAway ==
  /\ pc = "idle"
  /\ \E i \in DOMAIN folder :
       /\ folder' = Renamed(folder, folder[i].name)
       /\ committed' = (committed /\ xls_files(folder') # <<>> /\ xls_files(folder) # <<>>
                          /\ xls_files(folder')[1] = xls_files(folder)[1])
  /\ UNCHANGED <<employees, attendance, raw, rows_left, pc, df_cleaned, ret, failed, fault,
                 rerun, emp0, att0, inserted_count, updated_count, load_ret, imports,
                 full_name, parsed, leave_vars, timelog_vars, endpoint_vars, token_vars,
                 file_path, prev>>

NextFolder ==
  \/ FolderRead
  \/ LoadData
  \/ FolderMove
  \/ FolderReturn
  \/ TakeAway

SpecFolder == InitFolder /\ [][NextFolder]_vars

\* ------------------------------------------------------- claim vocabulary
KeyCount(att, e, d) ==
  Cardinality({i \in DOMAIN att : att[i].emp_id = e /\ att[i].attendance_date = d})
RangeCount(att, lo, hi) ==
  Cardinality({i \in DOMAIN att : lo <= att[i].attendance_date /\ att[i].attendance_date <= hi})
FileDates == {to_datetime(df_cleaned[k].Date) : k \in DOMAIN df_cleaned}

\* The label row that governs row i: the nearest label row above it, 0 if none.
Governor(rows, i) ==
  SetMax({0} \cup {j \in 1..(i - 1) : notna(rows[j].Date) /\ to_datetime(rows[j].Date) = None})
IsDataRow(r) == r.Date.k = "ts"
HasSeparator(l) == \E k \in DOMAIN l : l[k] = "-"
\* Data rows of the file whose governing label has a separator and carries id e.
Governed(rows, e) ==
  {i \in DOMAIN rows :
     /\ IsDataRow(rows[i])
     /\ Governor(rows, i) # 0
     /\ HasSeparator(rows[Governor(rows, i)].Date.s)
     /\ extract_user_info(rows[Governor(rows, i)].Date.s).id = e}
\* Data rows of the file under a label that has no separator.
Orphans(rows) ==
  {i \in DOMAIN rows :
     /\ IsDataRow(rows[i])
     /\ Governor(rows, i) # 0
     /\ ~HasSeparator(rows[Governor(rows, i)].Date.s)}
FileLabels == {raw.rows[i].Date.s : i \in {j \in DOMAIN raw.rows : raw.rows[j].Date.k = "str"}}
ValidLabels == {l \in FileLabels : HasSeparator(l)}
LabelIds == {"1", "2"}
InRun == pc \in {"cleaned", "loaded"}

\* str.title()'s result, stated on the result alone.
IsTitleCase(s) ==
  \A i \in DOMAIN s :
    IsCased(s[i]) =>
      IF i > 1 /\ IsCased(s[i - 1]) THEN s[i] \in DOMAIN Upper ELSE s[i] \in DOMAIN Lower
SameLetters(s, t) ==
  Len(s) = Len(t) /\ \A i \in DOMAIN s : ToLower(s[i]) = ToLower(t[i])

\* ------------------------------------------------------------------ claims

\* C1: storage holds at most one DailyAttendance record for each
\* (emp_id, attendance_date) pair, whatever files were imported.
C1_OneRecordPerKey ==
  \A i, j \in DOMAIN attendance :
    (attendance[i].emp_id = attendance[j].emp_id
     /\ attendance[i].attendance_date = attendance[j].attendance_date) => i = j

\* C2: a run that loads a file already committed by the run before inserts no
\* record, applies every row as an update and leaves the number of records in
\* the file's date range as it was.
C2_ReimportAddsNothing ==
  (pc = "loaded" /\ rerun) =>
    /\ inserted_count = 0
    /\ updated_count = Len(df_cleaned)
    /\ Len(attendance) = Len(att0)
    /\ RangeCount(attendance, SetMin(FileDates), SetMax(FileDates))
         = RangeCount(att0, SetMin(FileDates), SetMax(FileDates))
C2_Witness ==
  pc = "loaded" /\ rerun /\ updated_count >= 1 /\ Len(att0) > updated_count

\* C3: when the file has a row for an (employee, date) that storage already
\* held, the load leaves as many records under that key as before and one of
\* them carries the in, out and duration values of the file's last row for it.
C3_ExistingKeyUpdated ==
  pc = "loaded" =>
    \A k \in DOMAIN df_cleaned :
      LET e == df_cleaned[k].user_id
          d == to_datetime(df_cleaned[k].Date)
          last == SetMax({m \in DOMAIN df_cleaned :
                            df_cleaned[m].user_id = e /\ to_datetime(df_cleaned[m].Date) = d})
      IN KeyCount(att0, e, d) > 0 =>
           /\ KeyCount(attendance, e, d) = KeyCount(att0, e, d)
           /\ \E i \in DOMAIN attendance :
                /\ attendance[i].emp_id = e
                /\ attendance[i].attendance_date = d
                /\ attendance[i].in_time = to_datetime(df_cleaned[last].First_IN)
                /\ attendance[i].out_time = to_datetime(df_cleaned[last].Last_OUT)
                /\ attendance[i].duration = to_datetime(df_cleaned[last].Gross_Hours)
C3_Witness ==
  /\ pc = "loaded"
  /\ \E k \in DOMAIN df_cleaned, i \in DOMAIN att0 :
       /\ att0[i].emp_id = df_cleaned[k].user_id
       /\ att0[i].attendance_date = to_datetime(df_cleaned[k].Date)
       /\ att0[i].out_time # to_datetime(df_cleaned[k].Last_OUT)
       /\ attendance[i].out_time = to_datetime(df_cleaned[k].Last_OUT)

\* C4: a run on a file whose header row lacks a required column returns
\* failure and leaves both tables as they were when the run started.
C4_MissingColumnWritesNothing ==
  (pc = "done" /\ raw.kind = "table" /\ ~(keep_cols \subseteq raw.columns)) =>
    (ret = "False" /\ employees = emp0 /\ attendance = att0)

\* C5: a run whose load meets a storage failure returns failure and leaves
\* both tables as they were when the run started.
C5_LoadFailureRestoresAll ==
  (pc = "done" /\ failed = "load" /\ fault = "load") =>
    (ret = "False" /\ employees = emp0 /\ attendance = att0)

\* C6: every stored attendance record references a stored employee, and when
\* clean_data has returned the employees of its rows are stored while no
\* attendance record of this run has been written yet.
C6_EmployeeBeforeAttendance ==
  /\ \A i \in DOMAIN attendance : attendance[i].emp_id \in Ids(employees)
  /\ pc = "cleaned" =>
       /\ attendance = att0
       /\ \A k \in DOMAIN df_cleaned : df_cleaned[k].user_id \in Ids(employees)
C6_Witness ==
  /\ pc = "loaded"
  /\ \E i \in DOMAIN attendance :
       i > Len(att0) /\ attendance[i].emp_id \notin Ids(emp0)

\* C7: the data rows under a label without a separator reach neither the
\* cleaned rows nor storage: per employee the cleaned rows are exactly the data
\* rows governed by that employee's labels, and the load handles only those.
C7_OrphanRowsExcluded ==
  InRun =>
    /\ \A e \in LabelIds :
         Cardinality({k \in DOMAIN df_cleaned : df_cleaned[k].user_id = <<e>>})
           = Cardinality(Governed(raw.rows, <<e>>))
    /\ \A k \in DOMAIN df_cleaned : \E e \in LabelIds : df_cleaned[k].user_id = <<e>>
    /\ pc = "loaded" =>
         /\ inserted_count + updated_count = Len(df_cleaned)
         /\ Len(attendance) = Len(att0) + inserted_count
C7_Witness ==
  /\ pc = "loaded"
  /\ \E i \in Orphans(raw.rows) :
       \E j \in 1..(Governor(raw.rows, i) - 1) :
         raw.rows[j].Date.k = "str" /\ HasSeparator(raw.rows[j].Date.s)

\* C8: after the resolver has run without a storage failure, every label of
\* the file that has a separator has exactly one stored employee with its id.
C8_OneEmployeePerIdentifier ==
  (pc \in {"cleaned", "loaded", "done"} /\ raw.kind = "table" /\ "Date" \in raw.columns
     /\ fault # "users") =>
    \A l \in ValidLabels :
      Cardinality({u \in employees : u.id = extract_user_info(l).id}) = 1

\* C9: a label whose identifier was stored before the run resolves to that
\* identifier again and the run creates no employee for it.
C9_RepeatedLabelCreatesNothing ==
  InRun =>
    \A l \in ValidLabels :
      LET id == extract_user_info(l).id IN
      id \in Ids(emp0) =>
        /\ {u \in employees : u.id = id} = {u \in emp0 : u.id = id}
        /\ Cardinality(Governed(raw.rows, id))
             = Cardinality({k \in DOMAIN df_cleaned : df_cleaned[k].user_id = id})
C9_Witness ==
  /\ pc = "loaded"
  /\ \E l \in ValidLabels :
       /\ extract_user_info(l).id \in Ids(emp0)
       /\ Governed(raw.rows, extract_user_info(l).id) # {}

\* C10: a run changes no stored employee, also when a label carries another
\* name for its identifier, and every employee it creates has the title-cased
\* name of a label of the file.
C10_NamesWrittenOnceInTitleCase ==
  /\ emp0 \subseteq employees
  /\ \A u \in employees \ emp0 : IsTitleCase(u.name)
  /\ raw.kind = "table" =>
       \A u \in employees \ emp0 :
         \E l \in ValidLabels :
           /\ extract_user_info(l).id = u.id
           /\ SameLetters(extract_user_info(l).name, u.name)
C10_Witness ==
  /\ pc = "cleaned"
  /\ employees # emp0
  /\ \E l \in ValidLabels, u \in emp0 :
       /\ u.id = extract_user_info(l).id
       /\ ~SameLetters(u.name, extract_user_info(l).name)

\* C11: a run in which the read, the clean or the load failed returns False
\* and runs no later stage: after a read or clean failure attendance is as at
\* the start of the run, a failed load leaves the file in the raw folder, and
\* the only step after the failure is the return, which writes nothing.
C11_FailedStageHalts ==
  [][/\ (pc' = "done" /\ failed' # "none") => ret' = "False"
     /\ failed' \in {"read", "clean"} => attendance' = att0'
     /\ failed' = "load" => (raw' = raw /\ raw'.kind = "table" /\ load_ret'.value = "False")
     /\ (pc = "done" /\ failed # "none") =>
          (pc' = "idle" /\ UNCHANGED <<employees, attendance, raw>>)]_vars
C11_Witness ==
  pc = "done" /\ failed = "load" /\ ret = "False" /\ raw.kind = "table" /\ employees # emp0

\* C12: when the load has committed and the move of the file fails (the file
\* stays in the raw folder), process_file returns True and both tables keep
\* what the load committed.
C12_MoveFailureKeepsData ==
  [][(pc = "loaded" /\ raw' = raw) =>
       (pc' = "done" /\ ret' = "True" /\ failed' = "none"
        /\ UNCHANGED <<employees, attendance>>)]_vars
C12_Witness ==
  /\ pc = "done" /\ ret = "True" /\ raw.kind = "table"
  /\ attendance # att0 /\ employees # emp0

\* C13: the stages run in the order read, clean and validate, resolve
\* identities, load, move: employees are written only by a run whose rows were
\* cleaned and validated (a run that failed in the clean stage has written
\* none), attendance only after that, and a run ends either with the file
\* moved out of the raw folder or failed.
C13_StagesInOrder ==
  /\ (pc = "done" /\ failed \in {"read", "clean"}) => employees = emp0
  /\ pc = "cleaned" => attendance = att0
  /\ pc = "done" => (failed # "none" \/ raw = NoFile)

FirstSeparator(l) == SetMin({k \in DOMAIN l : l[k] = "-"})
C15_SplitAtFirstSeparator ==
  parsed # <<>> =>
    IF ~HasSeparator(full_name) THEN ~parsed[1].ok
    ELSE /\ parsed[1].ok
         /\ parsed[1].id = strip(SubSeq(full_name, 1, FirstSeparator(full_name) - 1))
         /\ parsed[1].name
              = strip(SubSeq(full_name, FirstSeparator(full_name) + 1, Len(full_name)))

\* C16: the rows clean_data hands on are, in file order, exactly the data rows
\* that have a parsable label row above them, each with the identifier of the
\* nearest label row above it; data rows above the first label row are dropped,
\* and a row with an empty date cell is dropped and does not end the block.
Retained(rows) ==
  {i \in DOMAIN rows :
     /\ IsDataRow(rows[i])
     /\ Governor(rows, i) # 0
     /\ HasSeparator(rows[Governor(rows, i)].Date.s)}
C16_RowsFollowNearestLabel ==
  InRun =>
    /\ Len(df_cleaned) = Cardinality(Retained(raw.rows))
    /\ \A k \in DOMAIN df_cleaned :
         LET i == Nth(Retained(raw.rows), k) IN
         df_cleaned[k]
           = CleanRow(extract_user_info(raw.rows[Governor(raw.rows, i)].Date.s).id, raw.rows[i])
C16_Witness ==
  /\ pc = "cleaned"
  /\ \E i \in DOMAIN raw.rows : IsDataRow(raw.rows[i]) /\ Governor(raw.rows, i) = 0
  /\ \E i \in Retained(raw.rows) :
       \E j \in (Governor(raw.rows, i) + 1)..(i - 1) : isna(raw.rows[j].Date)

\* What a cell holds as a date or time: the value of a Timestamp, nothing else.
CellTime(v) == IF v.k = "ts" THEN v.n ELSE None
\* The rows of the frame whose date converts, as positions of df_cleaned.
DatedRows == {k \in DOMAIN df_cleaned : CellTime(df_cleaned[k].Date) # None}
RowKeyCount(att, k) == KeyCount(att, df_cleaned[k].user_id, CellTime(df_cleaned[k].Date))
SameKey(k, m) ==
  /\ df_cleaned[k].user_id = df_cleaned[m].user_id
  /\ CellTime(df_cleaned[k].Date) = CellTime(df_cleaned[m].Date)

\* C17: a row is applied as an update exactly when storage held a record
\* with its (user_id, date) key when the load began and as an insert otherwise:
\* the counts are those of the rows with and without a stored key, a stored key
\* gains no record, a new key gains one record per row, and no stored record of
\* a key in the file is missed because of the date range of the query.
C17_UpdateIffKeyStored ==
  pc = "loaded" =>
    /\ updated_count = Cardinality({k \in DatedRows : RowKeyCount(att0, k) > 0})
    /\ inserted_count = Cardinality({k \in DatedRows : RowKeyCount(att0, k) = 0})
    /\ Len(attendance) = Len(att0) + inserted_count
    /\ \A k \in DatedRows :
         IF RowKeyCount(att0, k) > 0
         THEN RowKeyCount(attendance, k) = RowKeyCount(att0, k)
         ELSE RowKeyCount(attendance, k) = Cardinality({m \in DatedRows : SameKey(k, m)})
    /\ \A i \in DOMAIN att0 :
         (\A k \in DatedRows : ~(/\ att0[i].emp_id = df_cleaned[k].user_id
                                  /\ att0[i].attendance_date = CellTime(df_cleaned[k].Date)))
           => attendance[i] = att0[i]
C17_Witness ==
  /\ pc = "loaded"
  /\ updated_count >= 1
  /\ Len(df_cleaned) >= 2
  /\ \E i \in DOMAIN att0 :
       /\ att0[i].emp_id = <<"1">>
       /\ \A k \in DatedRows : att0[i].attendance_date > CellTime(df_cleaned[k].Date)

\* C19: a successful load hands its caller the counts inserted, updated and
\* skipped: inserted is the number of records added, updated the number of rows
\* applied to stored records, and the three add up to the rows it was given.
C19_CountsReturned ==
  pc = "loaded" =>
    /\ {"inserted", "updated", "skipped"} \subseteq DOMAIN load_ret
    /\ load_ret.inserted = Len(attendance) - Len(att0)
    /\ load_ret.updated = Cardinality({k \in DatedRows : RowKeyCount(att0, k) > 0})
    /\ load_ret.inserted + load_ret.updated + load_ret.skipped = Len(df_cleaned)

\* C19 as amended: a successful load hands its caller True and nothing else;
\* the counts go to the log only: inserted is the number of records added,
\* updated the number of rows applied to stored records, rows whose date does
\* not convert are dropped uncounted, and inserted + updated is the number of
\* rows whose date converts.
C19_CountsLogged ==
  pc = "loaded" =>
    /\ DOMAIN load_ret = {"value"}
    /\ load_ret.value = "True"
    /\ inserted_count = Len(attendance) - Len(att0)
    /\ updated_count = Cardinality({k \in DatedRows : RowKeyCount(att0, k) > 0})
    /\ inserted_count + updated_count = Cardinality(DatedRows)
C19_Witness ==
  /\ pc = "loaded"
  /\ inserted_count >= 1
  /\ updated_count >= 1
  /\ Cardinality(DatedRows) < Len(df_cleaned)

\* C20: a row whose date converts is stored also when a time of it does not:
\* the record written for it, by insert or by update, has each field unset
\* (None) exactly when the row's cell holds no time, and the cell's time
\* otherwise; a row whose date does not convert is stored nowhere: every
\* stored date is a date and the table grows by the rows of new keys only.
LastOfKey(k) == \A m \in DatedRows : SameKey(k, m) => m <= k
FrameKeysDistinct(df) ==
  \A k, m \in DOMAIN df :
    (CellTime(df[k].Date) # None /\ df[k].user_id = df[m].user_id
     /\ CellTime(df[k].Date) = CellTime(df[m].Date)) => k = m
InRange(att, df) ==
  SelectSeq(att, LAMBDA r :
    \E k, m \in DOMAIN df :
      /\ CellTime(df[k].Date) # None /\ CellTime(df[m].Date) # None
      /\ CellTime(df[k].Date) <= r.attendance_date
      /\ r.attendance_date <= CellTime(df[m].Date))
C18_ConcurrentImportsExclusive ==
  /\ \A p \in DOMAIN imports :
       imports[p].pc = "queried" =>
         InRange(attendance, imports[p].df) = InRange(imports[p].snap, imports[p].df)
  /\ (\A p \in DOMAIN imports : FrameKeysDistinct(imports[p].df)) =>
       \A i, j \in DOMAIN attendance :
         (attendance[i].emp_id = attendance[j].emp_id
          /\ attendance[i].attendance_date = attendance[j].attendance_date) => i = j

\* C21: a run deletes no employee and no attendance record, and every record
\* stored at its start whose (emp_id, date) key is on no row of the file is
\* still stored unchanged: records of other employees inside the file's date
\* range and all records outside that range.
InFile(r) ==
  \E k \in DOMAIN df_cleaned :
    /\ df_cleaned[k].user_id = r.emp_id
    /\ CellTime(df_cleaned[k].Date) = r.attendance_date
C21_ImportKeepsOtherRecords ==
  /\ emp0 \subseteq employees
  /\ Len(attendance) >= Len(att0)
  /\ \A i \in DOMAIN att0 :
       /\ attendance[i].emp_id = att0[i].emp_id
       /\ attendance[i].attendance_date = att0[i].attendance_date
       /\ ~InFile(att0[i]) => attendance[i] = att0[i]
C21_Witness ==
  /\ pc = "loaded"
  /\ attendance # att0
  /\ \E i \in DOMAIN att0, k \in DOMAIN df_cleaned :
       /\ att0[i].emp_id # df_cleaned[k].user_id
       /\ att0[i].attendance_date = CellTime(df_cleaned[k].Date)
       /\ ~InFile(att0[i])

\* C22: store_leave_records skips an approved leave day whose (emp_id,
\* leave_date, leave_type) is already stored: a call adds no row with the key
\* of a row stored before it, and a call that follows a successful one on the
\* same records adds no row at all.
SameLeave(a, b) ==
  a.emp_id = b.emp_id /\ a.leave_date = b.leave_date /\ a.leave_type = b.leave_type
C22_StoredLeaveSkipped ==
  [][/\ \A i \in (Len(leaves) + 1)..Len(leaves'), j \in DOMAIN leaves :
          ~SameLeave(leaves[j], leaves'[i])
     /\ leave_ret = "True" => leaves' = leaves]_vars

\* C23: after a process_and_save_timelogs call that returned True, every log
\* of the response that is complete and whose author is an employee is stored
\* under its task_log_id and date exactly once (updated when it was there,
\* inserted otherwise), every log detail is counted exactly once as inserted,
\* updated or skipped, and the logs that were not skipped are committed
\* whatever happened to the others.
RECURSIVE SumLen(_)
SumLen(q) == IF q = <<>> THEN 0 ELSE Len(Head(q).log_details) + SumLen(Tail(q))
Storable(log) ==
  /\ log.email # ""
  /\ get_user_id_by_email(employees, log.email) # {}
  /\ log.project # "" /\ log.log_hour # 0 /\ log.id # 0
EntryCount(id, d) ==
  Cardinality({i \in DOMAIN timelogs :
                 timelogs[i].task_log_id = id /\ timelogs[i].timelog_date = d})
C23_TimelogsUpserted ==
  timelog_ret = "True" =>
    /\ total_inserted + total_updated + total_skipped = SumLen(response_data.time_logs)
    /\ \A k \in DOMAIN response_data.time_logs :
         \A n \in DOMAIN response_data.time_logs[k].log_details :
           Storable(response_data.time_logs[k].log_details[n]) =>
             EntryCount(response_data.time_logs[k].log_details[n].id,
                        response_data.time_logs[k].date) = 1

\* C24: once /process-attendance has answered an authenticated request that
\* uploads a .xls file, then, unless reading the upload raised (which is
\* answered with 500), process_file has run for it and the answer is 200 when
\* it returned True and 400 when it returned False.
C24_EndpointReportsImport ==
  (response # NoResponse /\ request.user
     /\ endswith(request.filename, <<".", "x", "l", "s">>)) =>
    IF response.caught = "read" THEN response.status = 500
    ELSE \/ ret = "True" /\ response.status = 200
         \/ ret = "False" /\ response.status = 400

\* C25: a get_valid_access_token call made while a token is stored and its
\* expiry has not passed sends no request to the token endpoint and returns
\* the stored token; in particular, after one successful refresh the calls
\* before the new expiry return the refreshed token without another request.
C25_StoredTokenReused ==
  [][(token_ret' # token_ret \/ requests_made' # requests_made \/ env_file' # env_file)
       /\ env_file.ZOHO_ACCESS_TOKEN # 0 /\ now < env_file.ZOHO_TOKEN_EXPIRY
     => /\ requests_made' = requests_made
        /\ token_ret' = env_file.ZOHO_ACCESS_TOKEN]_vars

\* C26: every step of a process_file run on a folder of files obeys this: the
\* run reads the first .xls file of the listing and cleans that file and no
\* other, so a file that stays first is read again by every later run; the
\* folder changes only when the load has committed, and then only by losing
\* the file that was read; a run that fails in read, clean or load leaves the
\* folder as it is, the file it read included.
IsXls(e) == endswith(e.name, <<".", "x", "l", "s">>)
HasXls(dir) == \E i \in DOMAIN dir : IsXls(dir[i])
FirstListed(dir) ==
  dir[CHOOSE i \in DOMAIN dir : IsXls(dir[i]) /\ \A j \in 1..(i - 1) : ~IsXls(dir[j])]
Without(dir, i) == SubSeq(dir, 1, i - 1) \o SubSeq(dir, i + 1, Len(dir))
C26_FirstFileOnly ==
  [][pc' # pc =>
       /\ (pc = "idle" /\ HasXls(folder)) =>
            /\ file_path' = FirstListed(folder).name
            /\ raw' = FirstListed(folder).file
            /\ pc' = "cleaned" =>
                 df_cleaned' = clean_data(FirstListed(folder).file, employees, FALSE).rows
       /\ (pc = "idle" /\ ~HasXls(folder)) => (file_path' = <<>> /\ ret' = "False")
       /\ folder' # folder =>
            /\ pc = "loaded"
            /\ load_ret = LoadReturn(TRUE)
            /\ \E i \in DOMAIN folder :
                 folder[i].name = file_path /\ folder' = Without(folder, i)
       /\ (pc' = "done" /\ ret' = "False") =>
            /\ folder' = folder
            /\ file_path' # <<>> => \E i \in DOMAIN folder' : folder'[i].name = file_path'
     ]_vars
C26_Witness ==
  /\ pc = "done"
  /\ ret = "False"
  /\ prev.ret = "False"
  /\ file_path # <<>>
  /\ prev.file_path = file_path
  /\ Cardinality({i \in DOMAIN folder : IsXls(folder[i])}) >= 2
====
